---- MODULE Spec2Model ----
(***************************************************************************)
(* Model of spotipy/util/credentials.py: the RefreshingToken wrapper, the  *)
(* helper functions that create it, and parse_code_from_url.               *)
(*                                                                         *)
(* Strings are sequences of symbols.  The symbol "code" stands for the     *)
(* four letters c,o,d,e and "u" for a URL prefix without delimiters        *)
(* (http://localhost/callback); no other symbol shares letters with them,  *)
(* so equal symbol sequences are exactly equal strings.                    *)
(***************************************************************************)
EXTENDS Integers, Sequences, FiniteSets, TLC

\* ------------------------------------------------------------------ bounds
\* Total number of requests sent to the credentials manager in one run.
MaxCalls == 3
\* Largest number of '&'-separated fields in a pasted redirect URL.
MaxFields == 3

\* Threads that may share the one RefreshingToken.
Threads == {1, 2}

\* ------------------------------------------------------------- token values
None == <<"None">>
False == <<"False">>

\* The scope argument of prompt_for_user_token.
RequestedScopes == {None, <<"scope", 1>>}

\* Placeholder for "no Token object".
NoToken ==
    [id |-> 0, access_token |-> None, refresh_token |-> None,
     token_type |-> None, scope |-> None]

\* The Token records the credentials manager can produce as its k-th token:
\* every grant carries its own access token and scope value, with or without
\* a refresh token.
Token(k) ==
    {[id |-> k, access_token |-> <<"access", k>>, refresh_token |-> r,
      token_type |-> <<"Bearer">>, scope |-> <<"scope", k>>] :
        r \in {None, <<"refresh", k>>}}

\* --------------------------------------------------------- string helpers
RECURSIVE IndexOf(_, _, _)
\* Position of the first c in s at or after i, 0 when there is none
\* (str.find, 1-based).
IndexOf(s, c, i) ==
    IF i > Len(s) THEN 0
    ELSE IF s[i] = c THEN i
    ELSE IndexOf(s, c, i + 1)

\* s.split(c, 1): at most two pieces.
Split1(s, c) ==
    LET i == IndexOf(s, c, 1) IN
    IF i = 0 THEN <<s>>
    ELSE <<SubSeq(s, 1, i - 1), SubSeq(s, i + 1, Len(s))>>

RECURSIVE Split(_, _)
\* s.split(c): every piece between occurrences of c.
Split(s, c) ==
    LET i == IndexOf(s, c, 1) IN
    IF i = 0 THEN <<s>>
    ELSE <<SubSeq(s, 1, i - 1)>> \o Split(SubSeq(s, i + 1, Len(s)), c)

RECURSIVE Strip(_)
\* str.strip(): drop leading and trailing whitespace.
Strip(s) ==
    IF s = <<>> THEN s
    ELSE IF Head(s) = " " THEN Strip(Tail(s))
    ELSE IF s[Len(s)] = " " THEN Strip(SubSeq(s, 1, Len(s) - 1))
    ELSE s

\* Decoding of a name or value by parse_qs: '+' becomes a blank.  The pasted
\* URLs hold no '%' escape and no ';', so percent-decoding and the ';'
\* separator of older parse_qs versions do not come into play.
Unquote(s) == [i \in 1..Len(s) |-> IF s[i] = "+" THEN " " ELSE s[i]]

\* urlparse(url).query: the text after the first '?' of the part before the
\* first '#'.
urlparse_query(url) ==
    LET nofrag == Split1(url, "#")[1]
        parts == Split1(nofrag, "?")
    IN IF Len(parts) = 2 THEN parts[2] ELSE <<>>

RECURSIVE parse_qsl(_)
\* parse_qsl over the list of '&'-separated pieces: a piece without '=' or
\* with an empty value is skipped, names and values are decoded.
parse_qsl(pairs) ==
    IF pairs = <<>> THEN <<>>
    ELSE LET nv == Split1(Head(pairs), "=")
             rest == parse_qsl(Tail(pairs))
         IN IF Len(nv) # 2 THEN rest
            ELSE IF Len(nv[2]) = 0 THEN rest
            ELSE <<[name |-> Unquote(nv[1]), value |-> Unquote(nv[2])]>> \o rest

\* parse_qs(query).get(name, None): the list of values of name, <<>> standing
\* for None (a key of the dict always has at least one value).
parse_qs_get(query, name) ==
    SelectSeq(parse_qsl(Split(query, "&")), LAMBDA p : p.name = name)

codeName == <<"code">>

\* The two KeyError messages raised by parse_code_from_url.
MissingCode == <<"Parameter code not available!">>
MultipleCode == <<"Multiple values for code!">>

\* Variant of parse_code_from_url without the test for several values.
parse_code_from_url_first(url) ==
    LET query == urlparse_query(url)
        code == parse_qs_get(query, codeName)
    IN IF code = <<>>
       THEN [kind |-> "KeyError", value |-> MissingCode]
       ELSE [kind |-> "return", value |-> code[1].value]

\* parse_code_from_url(url)
parse_code_from_url(url) ==
    LET query == urlparse_query(url)
        code == parse_qs_get(query, codeName)
    IN IF code = <<>>
       THEN [kind |-> "KeyError", value |-> MissingCode]
       ELSE IF Len(code) > 1
       THEN [kind |-> "KeyError", value |-> MultipleCode]
       ELSE [kind |-> "return", value |-> code[1].value]

\* ------------------------------------------------------ pasted redirect URLs
\* The '&'-separated fields a pasted URL is assembled from.
Fields ==
    { <<"code", "=", "A">>, <<"code", "=", "B">>, <<"code", "=">>, <<"code">>,
      <<"x", "=", "A">>, <<>>, <<"code", "=", "A", "=", "B">>, <<"code", "=", "+">> }

\* Where the fields sit in the URL: in the query, in a query followed by a
\* fragment, inside the fragment, or appended to the path without a '?'.
Places == {"query", "query#", "fragment", "path"}

RECURSIVE FieldSeqs(_)
FieldSeqs(n) ==
    IF n = 0 THEN {<<>>}
    ELSE LET shorter == FieldSeqs(n - 1) IN
         shorter \cup {Append(fs, f) : fs \in {g \in shorter : Len(g) = n - 1}, f \in Fields}

\* What the user can paste: the fields, their place, and whether the line
\* carries surrounding blanks.
PastedInputs ==
    [fields : FieldSeqs(MaxFields), place : Places, blanks : BOOLEAN]

RECURSIVE Join(_, _)
\* c.join(parts)
Join(parts, c) ==
    IF parts = <<>> THEN <<>>
    ELSE IF Len(parts) = 1 THEN parts[1]
    ELSE parts[1] \o <<c>> \o Join(Tail(parts), c)

\* The line of text typed for a pasted input.
TypedLine(p) ==
    LET q == Join(p.fields, "&")
        body == CASE p.place = "query" -> <<"u", "?">> \o q
                  [] p.place = "query#" -> <<"u", "?">> \o q \o <<"#", "x">>
                  [] p.place = "fragment" -> <<"u", "#", "?">> \o q
                  [] OTHER -> <<"u">> \o q
    IN IF p.blanks THEN <<" ">> \o body \o <<" ", " ">> ELSE body

NoInput == [fields |-> <<>>, place |-> "none", blanks |-> FALSE]
NoCode == [kind |-> "none", value |-> <<>>]
NoUrl == [scope |-> None, state |-> None, show_dialog |-> FALSE]

\* ------------------------------------------------------------------- state
VARIABLES
    token,        \* RefreshingToken._token
    credentials,  \* RefreshingToken._credentials ("none" before construction)
    expiring,     \* ids of the tokens whose is_expiring is true
    mgrCalls,     \* requests the credentials manager has received
    issued,       \* tokens the credentials manager has produced
    threads,      \* the threads that read the wrapper
    th,           \* per thread: the frame of the property read in progress
    failed,       \* token of the last failed refresh not yet followed by a read
    nwrites,      \* assignments made to _token by access_token
    refreshed,    \* the Token returned by the latest successful refresh
    mpc,          \* position of the main program
    url,          \* prompt_for_user_token: url
    redirected,   \* prompt_for_user_token: redirected
    pasted,       \* the input behind redirected
    code,         \* prompt_for_user_token: outcome of parse_code_from_url
    events,       \* calls made by the main program, in order
    error         \* exception that ended the main program

vars ==
    <<token, credentials, expiring, mgrCalls, issued, threads, th, failed,
      nwrites, refreshed, mpc, url, redirected, pasted, code, events, error>>

wrapperVars == <<token, credentials>>
mainVars == <<mpc, url, redirected, pasted, code, events, error>>

IdleFrame ==
    [pc |-> "idle", op |-> "none", saw |-> FALSE, start |-> NoToken,
     calls0 |-> 0, arg |-> NoToken, n |-> 0, res |-> NoToken,
     ret |-> None, raised |-> FALSE, valid |-> FALSE, retry |-> NoToken,
     wseq |-> 0]

\* Token.is_expiring: true once the remaining lifetime is below the margin.
token_is_expiring(tok) == tok.id \in expiring

InitCommon ==
    /\ token = NoToken
    /\ credentials = "none"
    /\ expiring = {}
    /\ mgrCalls = 0
    /\ issued = 0
    /\ th = [t \in Threads |-> IdleFrame]
    /\ failed = NoToken
    /\ nwrites = 0
    /\ refreshed = NoToken
    /\ mpc = "start"
    /\ url = NoUrl
    /\ redirected = <<>>
    /\ pasted = NoInput
    /\ code = NoCode
    /\ events = <<>>
    /\ error = "none"

\* One thread uses the wrapper.
Init == InitCommon /\ threads = {1}

\* Two threads share the wrapper.
InitShared == InitCommon /\ threads = Threads

\* ------------------------------------------------- credentials manager
\* What the manager can answer to its next request: a new Token, possibly
\* one whose lifetime is already below the safety margin, or a failure.
ManagerReplies ==
    {[ok |-> TRUE, token |-> tok, short |-> b] : tok \in Token(issued + 1), b \in BOOLEAN}
    \cup {[ok |-> FALSE, token |-> NoToken, short |-> FALSE]}

\* The manager receives a request and answers it with reply r.
ManagerAnswers(r) ==
    /\ issued' = IF r.ok THEN issued + 1 ELSE issued
    /\ expiring' = IF r.ok /\ r.short THEN expiring \cup {r.token.id} ELSE expiring

\* Time passes: the held token's remaining lifetime falls below the margin.
Expire ==
    /\ credentials # "none"
    /\ ~ token_is_expiring(token)
    /\ expiring' = expiring \cup {token.id}
    /\ UNCHANGED <<token, credentials, mgrCalls, issued, threads, th, failed, nwrites, refreshed>>
    /\ UNCHANGED mainVars

\* ------------------------------------------------------------ main program
\* RefreshingToken.__init__
RefreshingToken(tok, client) ==
    /\ token' = tok
    /\ credentials' = client

\* A helper's closing call "return cred.<request>(...)": one request to the
\* manager, wrapped in a RefreshingToken when it succeeds.
RequestAndWrap(r, name) ==
    /\ mgrCalls < MaxCalls
    /\ mgrCalls' = mgrCalls + 1
    /\ ManagerAnswers(r)
    /\ events' = Append(events, name)
    /\ IF r.ok
       THEN /\ RefreshingToken(r.token, "client")
            /\ mpc' = "done"
            /\ error' = error
       ELSE /\ UNCHANGED wrapperVars
            /\ mpc' = "failed"
            /\ error' = "manager"
    /\ url' = NoUrl
    /\ redirected' = <<>>
    /\ pasted' = NoInput
    /\ code' = NoCode
    /\ UNCHANGED <<threads, th, failed, nwrites, refreshed>>

\* request_client_token(client_id, client_secret)
request_client_token ==
    /\ mpc = "start"
    /\ \E r \in ManagerReplies :
         /\ r.token.refresh_token = None
         /\ RequestAndWrap(r, "request_client_token")

\* refresh_user_token(client_id, client_secret, refresh_token)
refresh_user_token ==
    /\ mpc = "start"
    /\ \E r \in ManagerReplies :
         /\ r.ok => r.token.refresh_token # None
         /\ RequestAndWrap(r, "refresh_user_token")

MainStep(from, to, name) ==
    /\ mpc = from
    /\ mpc' = to
    /\ events' = Append(events, name)
    /\ UNCHANGED <<token, credentials, expiring, mgrCalls, issued, threads, th,
                   failed, nwrites, refreshed, error>>

\* prompt_for_user_token, lines 279-280: the authorisation URL.
prompt_user_authorisation_url ==
    /\ MainStep("start", "open", "user_authorisation_url")
    /\ \E sc \in RequestedScopes :
         url' = [scope |-> sc, state |-> None, show_dialog |-> TRUE]
    /\ UNCHANGED <<redirected, pasted, code>>

\* prompt_for_user_token, lines 282-283
prompt_webbrowser_open ==
    /\ MainStep("open", "input", "webbrowser.open")
    /\ UNCHANGED <<url, redirected, pasted, code>>

\* prompt_for_user_token, line 284
prompt_input ==
    /\ MainStep("input", "parse", "input")
    /\ \E p \in PastedInputs :
         /\ pasted' = p
         /\ redirected' = Strip(TypedLine(p))
    /\ UNCHANGED <<url, code>>

\* Variant of line 285 that goes on to the request whatever the extraction
\* gave.
prompt_parse_code_unchecked ==
    /\ mpc = "parse"
    /\ code' = parse_code_from_url(redirected)
    /\ mpc' = "request"
    /\ error' = error
    /\ events' = Append(events, "parse_code_from_url")
    /\ UNCHANGED <<token, credentials, expiring, mgrCalls, issued, threads, th,
                   failed, nwrites, refreshed, url, redirected, pasted>>

\* prompt_for_user_token, line 285
prompt_parse_code ==
    /\ mpc = "parse"
    /\ code' = parse_code_from_url(redirected)
    /\ mpc' = IF code'.kind = "return" THEN "request" ELSE "failed"
    /\ error' = IF code'.kind = "return" THEN error ELSE code'.kind
    /\ events' = Append(events, "parse_code_from_url")
    /\ UNCHANGED <<token, credentials, expiring, mgrCalls, issued, threads, th,
                   failed, nwrites, refreshed, url, redirected, pasted>>

\* prompt_for_user_token, line 286
prompt_request_user_token ==
    /\ mpc = "request"
    /\ \E r \in ManagerReplies :
         /\ r.ok => r.token.refresh_token # None
         /\ RequestAndWrap(r, "request_user_token")

\* ------------------------------------------------ RefreshingToken properties
Idle(t) ==
    /\ credentials # "none"
    /\ t \in threads
    /\ th[t].pc = "idle"

\* Variant of line 72 that refreshes whatever is_expiring says.
access_token_check_always(t) ==
    /\ Idle(t)
    /\ th' = [th EXCEPT ![t] =
               [IdleFrame EXCEPT !.pc = "refresh",
                                 !.op = "access_token",
                                 !.saw = token_is_expiring(token),
                                 !.start = token,
                                 !.calls0 = mgrCalls,
                                 !.retry = failed]]
    /\ failed' = NoToken
    /\ UNCHANGED <<token, credentials, expiring, mgrCalls, issued, threads, nwrites, refreshed>>
    /\ UNCHANGED mainVars

\* access_token, line 72: the test of self._token.is_expiring
access_token_check(t) ==
    /\ Idle(t)
    /\ th' = [th EXCEPT ![t] =
               [IdleFrame EXCEPT !.pc = IF token_is_expiring(token) THEN "refresh" ELSE "return",
                                 !.op = "access_token",
                                 !.saw = token_is_expiring(token),
                                 !.start = token,
                                 !.calls0 = mgrCalls,
                                 !.retry = failed]]
    /\ failed' = NoToken
    /\ UNCHANGED <<token, credentials, expiring, mgrCalls, issued, threads, nwrites, refreshed>>
    /\ UNCHANGED mainVars

\* access_token, line 73: self._credentials.refresh(self._token) is called
access_token_refresh_call(t) ==
    /\ th[t].pc = "refresh"
    /\ mgrCalls < MaxCalls
    /\ mgrCalls' = mgrCalls + 1
    /\ th' = [th EXCEPT ![t].pc = "wait", ![t].arg = token, ![t].n = @ + 1]
    /\ UNCHANGED <<token, credentials, expiring, issued, threads, failed, nwrites, refreshed>>
    /\ UNCHANGED mainVars

\* Variant of line 73 that keeps the result in a local and leaves
\* self._token as it was.
access_token_refresh_store_local(t) ==
    /\ th[t].pc = "wait"
    /\ \E r \in ManagerReplies :
         /\ r.ok
         /\ ManagerAnswers(r)
         /\ token' = token
         /\ refreshed' = r.token
         /\ th' = [th EXCEPT ![t].pc = "return", ![t].res = r.token,
                             ![t].wseq = nwrites + 1]
    /\ nwrites' = nwrites + 1
    /\ UNCHANGED <<credentials, mgrCalls, threads, failed>>
    /\ UNCHANGED mainVars

\* Variant of line 73 that assigns self._token only when it still is the
\* token that was passed to refresh.
access_token_refresh_store_once(t) ==
    /\ th[t].pc = "wait"
    /\ \E r \in ManagerReplies :
         /\ r.ok
         /\ ManagerAnswers(r)
         /\ token' = IF token = th[t].arg THEN r.token ELSE token
         /\ refreshed' = r.token
         /\ th' = [th EXCEPT ![t].pc = "return", ![t].res = r.token,
                             ![t].wseq = nwrites + 1]
    /\ nwrites' = nwrites + 1
    /\ UNCHANGED <<credentials, mgrCalls, threads, failed>>
    /\ UNCHANGED mainVars

\* access_token, line 73: the call returns and self._token is assigned
access_token_refresh_store(t) ==
    /\ th[t].pc = "wait"
    /\ \E r \in ManagerReplies :
         /\ r.ok
         /\ ManagerAnswers(r)
         /\ token' = r.token
         /\ refreshed' = r.token
         /\ th' = [th EXCEPT ![t].pc = "return", ![t].res = r.token,
                             ![t].wseq = nwrites + 1]
    /\ nwrites' = nwrites + 1
    /\ UNCHANGED <<credentials, mgrCalls, threads, failed>>
    /\ UNCHANGED mainVars

\* Variant of line 73 that has dropped the held token when the call raises.
access_token_refresh_raise_drop(t) ==
    /\ th[t].pc = "wait"
    /\ \E r \in ManagerReplies :
         /\ ~ r.ok
         /\ ManagerAnswers(r)
    /\ th' = [th EXCEPT ![t].pc = "done", ![t].raised = TRUE, ![t].ret = <<"error">>]
    /\ failed' = th[t].arg
    /\ token' = NoToken
    /\ UNCHANGED <<credentials, mgrCalls, threads, nwrites, refreshed>>
    /\ UNCHANGED mainVars

\* access_token, line 73: the call raises
access_token_refresh_raise(t) ==
    /\ th[t].pc = "wait"
    /\ \E r \in ManagerReplies :
         /\ ~ r.ok
         /\ ManagerAnswers(r)
    /\ th' = [th EXCEPT ![t].pc = "done", ![t].raised = TRUE, ![t].ret = <<"error">>]
    /\ failed' = th[t].arg
    /\ UNCHANGED <<token, credentials, mgrCalls, threads, nwrites, refreshed>>
    /\ UNCHANGED mainVars

\* Variant of line 75 that returns the value of the token found at line 72.
access_token_return_start(t) ==
    /\ th[t].pc = "return"
    /\ th' = [th EXCEPT ![t].pc = "done", ![t].ret = th[t].start.access_token,
                        ![t].valid = ~ token_is_expiring(th[t].start)]
    /\ UNCHANGED <<token, credentials, expiring, mgrCalls, issued, threads, failed, nwrites, refreshed>>
    /\ UNCHANGED mainVars

\* access_token, line 75
access_token_return(t) ==
    /\ th[t].pc = "return"
    /\ th' = [th EXCEPT ![t].pc = "done", ![t].ret = token.access_token,
                        ![t].valid = ~ token_is_expiring(token)]
    /\ UNCHANGED <<token, credentials, expiring, mgrCalls, issued, threads, failed, nwrites, refreshed>>
    /\ UNCHANGED mainVars

\* A property whose getter is one expression: it returns value.
Getter(t, name, value) ==
    /\ Idle(t)
    /\ th' = [th EXCEPT ![t] =
               [IdleFrame EXCEPT !.pc = "done", !.op = name, !.start = token,
                                 !.calls0 = mgrCalls, !.ret = value]]
    /\ UNCHANGED <<token, credentials, expiring, mgrCalls, issued, threads, failed, nwrites, refreshed>>
    /\ UNCHANGED mainVars

\* RefreshingToken.refresh_token
refresh_token(t) == Getter(t, "refresh_token", token.refresh_token)

\* RefreshingToken.token_type
token_type(t) == Getter(t, "token_type", token.token_type)

\* Variant of scope that refreshes an expiring token as access_token does.
scope_refreshing(t) ==
    /\ Idle(t)
    /\ token_is_expiring(token)
    /\ mgrCalls < MaxCalls
    /\ mgrCalls' = mgrCalls + 1
    /\ \E r \in ManagerReplies :
         /\ r.ok
         /\ ManagerAnswers(r)
         /\ token' = r.token
         /\ refreshed' = r.token
         /\ th' = [th EXCEPT ![t] =
                    [IdleFrame EXCEPT !.pc = "done", !.op = "scope", !.start = token,
                                      !.calls0 = mgrCalls, !.ret = r.token.scope]]
    /\ UNCHANGED <<credentials, threads, failed, nwrites>>
    /\ UNCHANGED mainVars

\* RefreshingToken.scope
scope(t) == Getter(t, "scope", token.scope)

\* RefreshingToken.expires_in
expires_in(t) == Getter(t, "expires_in", None)

\* RefreshingToken.expires_at
expires_at(t) == Getter(t, "expires_at", None)

\* Variant of is_expiring that reports the held token's is_expiring.
is_expiring_delegating(t) ==
    Getter(t, "is_expiring", IF token_is_expiring(token) THEN <<"True">> ELSE False)

\* RefreshingToken.is_expiring
is_expiring(t) == Getter(t, "is_expiring", False)

\* The caller receives the value (or the exception) of the property read.
Received(t) ==
    /\ th[t].pc = "done"
    /\ th' = [th EXCEPT ![t] = IdleFrame]
    /\ UNCHANGED <<token, credentials, expiring, mgrCalls, issued, threads, failed, nwrites, refreshed>>
    /\ UNCHANGED mainVars

Next ==
    \/ request_client_token
    \/ refresh_user_token
    \/ prompt_user_authorisation_url
    \/ prompt_webbrowser_open
    \/ prompt_input
    \/ prompt_parse_code
    \/ prompt_request_user_token
    \/ Expire
    \/ \E t \in Threads : access_token_check(t)
    \/ \E t \in Threads : access_token_refresh_call(t)
    \/ \E t \in Threads : access_token_refresh_store(t)
    \/ \E t \in Threads : access_token_refresh_raise(t)
    \/ \E t \in Threads : access_token_return(t)
    \/ \E t \in Threads : refresh_token(t)
    \/ \E t \in Threads : token_type(t)
    \/ \E t \in Threads : scope(t)
    \/ \E t \in Threads : expires_in(t)
    \/ \E t \in Threads : expires_at(t)
    \/ \E t \in Threads : is_expiring(t)
    \/ \E t \in Threads : Received(t)

\* One thread reads the wrapper.
Spec == Init /\ [][Next]_vars

\* Two threads share the wrapper without synchronisation.
SpecShared == InitShared /\ [][Next]_vars

\* ------------------------------------------------------------ properties
\* Thread t has finished a read of property name and not yet handed it over.
Finished(t, name) == t \in threads /\ th[t].pc = "done" /\ th[t].op = name

\* C1: a read of access_token that finds the held token expiring calls the
\* manager's refresh exactly once, with the held token as argument, and when
\* the refresh succeeds it returns the access_token of the token returned by
\* the refresh.
C1_ExpiringReadRefreshesOnce ==
    \A t \in threads :
        (th[t].op = "access_token" /\ th[t].saw) =>
            /\ th[t].pc \in {"wait", "return", "done"} =>
                   /\ th[t].n = 1
                   /\ mgrCalls = th[t].calls0 + 1
                   /\ th[t].arg = th[t].start
            /\ (th[t].pc = "done" /\ ~ th[t].raised) =>
                   /\ th[t].res # NoToken
                   /\ th[t].res.id # th[t].start.id
                   /\ th[t].ret = th[t].res.access_token

C1_Witness ==
    \E t \in threads :
        /\ Finished(t, "access_token")
        /\ th[t].saw
        /\ ~ th[t].raised
        /\ th[t].ret # th[t].start.access_token

\* C2: a read of access_token that finds the held token not expiring makes
\* no call to the manager, leaves the held token as it was and returns its
\* access_token.
C2_FreshReadIsPassThrough ==
    \A t \in threads :
        (th[t].op = "access_token" /\ ~ th[t].saw) =>
            /\ th[t].n = 0
            /\ mgrCalls = th[t].calls0
            /\ token = th[t].start
            /\ th[t].pc = "done" =>
                   /\ ~ th[t].raised
                   /\ th[t].ret = th[t].start.access_token

C2_Witness ==
    \E t \in threads :
        /\ Finished(t, "access_token")
        /\ ~ th[t].saw
        /\ th[t].ret = token.access_token

\* C3: when the refresh made by a read of access_token fails, the read ends
\* with the failure after that single call, the held token is the one held
\* before the read, and the next read of access_token calls refresh again
\* with that same token.
C3_FailedRefreshKeepsToken ==
    \A t \in threads :
        /\ (Finished(t, "access_token") /\ th[t].raised) =>
               /\ token = th[t].start
               /\ th[t].n = 1
               /\ mgrCalls = th[t].calls0 + 1
               /\ failed = th[t].start
        /\ (Finished(t, "access_token") /\ th[t].retry # NoToken) =>
               /\ th[t].saw
               /\ th[t].n = 1
               /\ th[t].arg = th[t].retry

C3_Witness ==
    \E t \in threads :
        /\ Finished(t, "access_token")
        /\ th[t].retry # NoToken
        /\ th[t].arg = th[t].retry
        /\ ~ th[t].raised

\* C4: expires_in and expires_at read as None and is_expiring reads as
\* False, whatever the state of the held token.
C4_ExpiryIsHidden ==
    \A t \in threads :
        /\ Finished(t, "expires_in") => th[t].ret = None
        /\ Finished(t, "expires_at") => th[t].ret = None
        /\ Finished(t, "is_expiring") => th[t].ret = False

C4_Witness ==
    \E t \in threads :
        /\ Finished(t, "is_expiring")
        /\ token_is_expiring(token)
        /\ refreshed # NoToken

\* C5: once a read of access_token has refreshed the token, reads of
\* refresh_token, token_type and scope return the fields of the token returned
\* by the latest successful refresh.
C5_FieldsFollowRefresh ==
    \A t \in threads :
        refreshed # NoToken =>
            /\ Finished(t, "refresh_token") => th[t].ret = refreshed.refresh_token
            /\ Finished(t, "token_type") => th[t].ret = refreshed.token_type
            /\ Finished(t, "scope") => th[t].ret = refreshed.scope

C5_Witness ==
    \E t \in threads :
        /\ Finished(t, "scope")
        /\ refreshed # NoToken
        /\ th[t].ret = refreshed.scope
        /\ nwrites = 1

\* C6: once the wrapper exists, its held token, its manager reference and the
\* number of requests the manager has received change only in a step of a
\* read of access_token that found the held token expiring.
C6_Step ==
    (/\ credentials # "none"
     /\ \/ token' # token
        \/ credentials' # credentials
        \/ mgrCalls' # mgrCalls)
    => /\ credentials' = credentials
       /\ \E t \in threads :
            /\ th[t].op = "access_token"
            /\ th[t].saw
            /\ th[t].pc \in {"refresh", "wait"}
            /\ th'[t].pc # th[t].pc
            /\ token_is_expiring(token)

C6_OnlyExpiringAccessReplaces == [][C6_Step]_vars

C6_Witness ==
    \E t \in threads :
        /\ Finished(t, "scope")
        /\ token_is_expiring(token)
        /\ token = th[t].start
        /\ mgrCalls = th[t].calls0

\* C7: whenever a read of access_token returns a value, the held token it
\* belongs to was not expiring at the moment of the return.
C7_ReturnedValueIsValid ==
    \A t \in threads :
        (Finished(t, "access_token") /\ ~ th[t].raised) => th[t].valid

\* The '&'-separated fields of a pasted input that are query parameters.
QueryFields(p) == IF p.place \in {"query", "query#"} THEN p.fields ELSE <<>>

FieldName(f) == Split1(f, "=")[1]

FieldValue(f) == IF Len(Split1(f, "=")) = 2 THEN Split1(f, "=")[2] ELSE <<>>

\* The parameters named code of a pasted input.
CodeParams(p) == SelectSeq(QueryFields(p), LAMBDA f : FieldName(f) = codeName)

\* The parameters named code that carry a non-empty value.
CodeValues(p) == SelectSeq(CodeParams(p), LAMBDA f : FieldValue(f) # <<>>)

Parsed == code.kind # "none"

Outcome(params) ==
    IF Len(params) = 0 THEN [kind |-> "KeyError", value |-> MissingCode]
    ELSE IF Len(params) > 1 THEN [kind |-> "KeyError", value |-> MultipleCode]
    ELSE [kind |-> "return", value |-> Unquote(FieldValue(params[1]))]

\* C8 as stated: the outcome of parse_code_from_url is decided by the number
\* of code parameters of the URL: one gives its value, none the missing-code
\* error, several the multiple-code error.
C8_ByNumberOfCodeParams == Parsed => code = Outcome(CodeParams(pasted))

\* C8 amended: the outcome of parse_code_from_url is decided by the number of
\* code parameters that have a non-empty value: one gives its value, none the
\* missing-code error, several the multiple-code error.
C8_ByNumberOfCodeValues == Parsed => code = Outcome(CodeValues(pasted))

C8_Witness ==
    /\ Parsed
    /\ code.kind = "return"
    /\ Len(CodeParams(pasted)) = 2
    /\ Len(CodeValues(pasted)) = 1

PromptOrder ==
    <<"user_authorisation_url", "webbrowser.open", "input",
      "parse_code_from_url", "request_user_token">>

Prompting == events # <<>> /\ events[1] = "user_authorisation_url"

BothRefreshed ==
    /\ \A t \in Threads :
          /\ th[t].op = "access_token"
          /\ th[t].pc \in {"return", "done"}
          /\ th[t].res # NoToken
    /\ th[1].arg = th[2].arg

\* C10: when two threads' reads of access_token both refreshed the same
\* token, both had found it expiring, each made its own refresh call and
\* received its own token, and the held token is the one stored last.
C10_BothRefreshSameToken ==
    BothRefreshed =>
        /\ \A t \in Threads : th[t].saw /\ th[t].n = 1
        /\ th[1].res # th[2].res
        /\ mgrCalls >= 2
        /\ token = IF th[1].wseq > th[2].wseq THEN th[1].res ELSE th[2].res

C10_Witness ==
    /\ BothRefreshed
    /\ th[1].arg = th[1].start
    /\ th[2].arg = th[2].start
    /\ th[1].pc = "done"
    /\ th[2].pc = "done"

====
